---- MODULE Spec2Model ----
(***************************************************************************)
(* A model of the MABE2 core pieces found in this repository: the factory  *)
(* / organism manager with its shared ManagerData, organism cloning,       *)
(* mutation and offspring production, and the Setup / Update protocol of   *)
(* the controller together with the modules EvalNK and                     *)
(* AnnotatePlacement_Position.                                             *)
(***************************************************************************)
EXTENDS Integers, Sequences, FiniteSets, TLC

\* ------------------------------------------------------------------------
\* Bounds of the model
\* ------------------------------------------------------------------------
\* number of bits of a genome (NK.cc runs with N = 30)
N == 2
\* draws of the random source between two ResetSeed calls
MaxDraws == 6
\* organisms constructed on one or several managers in SpecShared
MaxOrgs == 3
\* bit organisms injected into the world of NK.cc (POP_SIZE)
POP_SIZE == 2

\* MUT_COUNT of NK.cc: "How many bit positions should be randomized?"
MUT_COUNT == 3

\* ------------------------------------------------------------------------
\* Managers, organisms, shared data
\* ------------------------------------------------------------------------
VARIABLES
  data,      \* FactoryModule::data, one ManagerData per manager instance
  orgs,      \* the organisms constructed so far (sequence of records)
  rng,       \* draws taken from the random source since ResetSeed
  pop,       \* the world of NK.cc: BitOrgs (emp::BitVector of N bits)
  written,   \* history: per manager, the value last written to each field
  last       \* observation of the last operation (arguments and results)

\* the controller (mabe::MABE control) and what it owns
VARIABLES
  modules,    \* the modules, in registration order
  status,     \* "new", "building", "setup", "ready", "updating", "failed",
              \* "exited"
  pc,         \* the step of Setup or Update the controller is at
  cfg,        \* the configurable fields of the modules (LinkVar, LinkPop)
  linked,     \* the options declared so far by SetupConfig
  traits,     \* TraitManager: the declarations made so far
  layout,     \* the locked DataMap layout: trait name -> type
  landscape,  \* EvalNK::landscape
  proto,      \* FactoryModule::obj_prototype of the bit organisms
  slots,      \* the slots of the population main_pop (id 0)
  gen,        \* generations run so far
  todo,       \* generations the running Update(n) still has to run
  queue,      \* reproduction requests: positions of the parents
  newborns,   \* slots filled by a birth of the running generation
  hist        \* history: what Setup and the running Update have done

orgVars == <<data, orgs, rng, pop, written, last>>

ctlVars == <<modules, status, pc, cfg, linked, traits, layout, landscape,
             proto, slots, gen, todo, queue, newborns, hist>>

\* two instances of OrganismManager<VirtualCPUOrg>
Managers == {"manager_a", "manager_b"}

\* values of the traits merit and child_merit and of initial_merit
Merits == {0, 1, 2}
\* mut_prob in percent: 0, the default 0.01 and 1.0
MutProbs == {0, 1, 100}
Fields == {"mut_prob", "initial_merit"}
FieldValues(f) == IF f = "mut_prob" THEN MutProbs ELSE Merits

\* defaults of ManagerData (mut_prob == 0.01, initial_merit == 0,
\* init_random == true)
DefaultData == [mut_prob |-> 1, initial_merit |-> 0, init_random |-> TRUE]

TraitNames == {"merit", "child_merit"}
Bits == {0, 1}
\* the bit sequences of length n
GenomesOf(n) == [1..n -> Bits]

Genomes == GenomesOf(N)

\* a freshly constructed organism of manager m (also the manager's prototype)
NewOrg(m) ==
  [manager |-> m,
   genome |-> [i \in 1..N |-> 0],
   traits |-> [t \in TraitNames |-> 0],
   inst_ptr |-> 0,
   inited |-> FALSE]

Prototype(m) == NewOrg(m)

NoOrg == NewOrg("manager_a")

NoOp ==
  [op |-> "none", id |-> 0, parent |-> NoOrg, child |-> NoOrg, ret |-> 0,
   used |-> 0, ref |-> NoOrg, refUsed |-> 0]

\* a variant of GetManager in which the shared data is one static object
GetManager_static(o) == "manager_a"

\* ProductTemplate::GetManager: the manager the organism was built with
GetManager(o) == o.manager

\* ProductTemplate::SharedData: GetManager().data
SharedData(o) == data[GetManager(o)]

OrgIds == 1..Len(orgs)

\* `VirtualCPUOrg org(manager)`: construct an organism on a manager
Construct(m, cap) ==
  /\ Len(orgs) < cap
  /\ orgs' = Append(orgs, NewOrg(m))
  /\ last' = NoOp
  /\ UNCHANGED <<data, rng, written, pop>>
  /\ UNCHANGED ctlVars

\* `org.SharedData().f = v`: a write through organism i
WriteSharedData(i, f, v) ==
  /\ i \in OrgIds
  /\ data' = [data EXCEPT ![GetManager(orgs[i])][f] = v]
  /\ written' = [written EXCEPT ![orgs[i].manager][f] = v]
  /\ last' = [NoOp EXCEPT !.op = "write", !.id = i]
  /\ UNCHANGED <<orgs, rng, pop>>
  /\ UNCHANGED ctlVars

\* ------------------------------------------------------------------------
\* Random source: the stream's values are inputs, its position is state
\* ------------------------------------------------------------------------
\* random.P(p), p in percent: never with p = 0, always with p = 1.0, and
\* otherwise as the stream decides (d)
P(d, p) == IF p = 0 THEN FALSE ELSE IF p = 100 THEN TRUE ELSE d

\* the random source after k more draws
Advance(pos, k) == pos + k

\* control.GetRandom().ResetSeed(s)
ResetSeed ==
  /\ rng # 0
  /\ rng' = 0
  /\ last' = NoOp
  /\ UNCHANGED <<data, orgs, written, pop>>
  /\ UNCHANGED ctlVars

\* what the stream decides for the MUT_COUNT trials of mut_fun: the position
\* random.GetUInt(N) returns and the outcome of random.P(0.5)
TrialsOf(n) == [1..MUT_COUNT -> [pos : 0..(n - 1), flip : BOOLEAN]]

Trials == TrialsOf(N)

\* what the stream decides for N calls of random.P
SiteDraws == [1..N -> BOOLEAN]

\* ------------------------------------------------------------------------
\* Mutation
\* ------------------------------------------------------------------------
\* org[pos] ^= 1
FlipBit(org, pos) == [org EXCEPT ![pos + 1] = (@ + 1) % 2]

\* the loop of mut_fun: trial m of MUT_COUNT, num_muts flips so far
RECURSIVE mut_fun_loop(_, _, _, _)
mut_fun_loop(org, draws, m, num_muts) ==
  IF m >= MUT_COUNT
  THEN [genome |-> org, ret |-> num_muts]
  ELSE LET pos == draws[m + 1].pos
       IN IF P(draws[m + 1].flip, 50)
          THEN mut_fun_loop(FlipBit(org, pos), draws, m + 1, num_muts + 1)
          ELSE mut_fun_loop(org, draws, m + 1, num_muts)

\* mut_fun of NK.cc: the Mutate of the bit-sequence encoding
mut_fun(org, draws) == mut_fun_loop(org, draws, 0, 0)

\* Mutate of a VirtualCPU organism: every site mutates with probability
\* mut_prob; a mutated site always changes
MutatedSites(draws, p) == {i \in 1..N : P(draws[i], p)}

VirtualCPUOrg_Mutate(genome, p, draws) ==
  LET sites == MutatedSites(draws, p)
  IN [genome |-> [i \in 1..N |-> IF i \in sites THEN (genome[i] + 1) % 2
                                 ELSE genome[i]],
      ret |-> Cardinality(sites)]

\* org.Mutate(random) of a VirtualCPU organism: N draws
Mutate(o, draws) ==
  LET r == VirtualCPUOrg_Mutate(o.genome, SharedData(o).mut_prob, draws)
  IN [org |-> [o EXCEPT !.genome = r.genome], ret |-> r.ret, used |-> N]

\* number of positions at which two genomes differ
DiffCount(g, h) == Cardinality({i \in 1..N : g[i] # h[i]})

\* ------------------------------------------------------------------------
\* Clone and offspring
\* ------------------------------------------------------------------------
\* a variant of CloneOrganism that copies the manager's prototype
CloneOrganism_prototype(org) ==
  [Prototype(org.manager) EXCEPT !.inited = org.inited]

\* a variant of CloneOrganism that copies the genome but not the DataMap
CloneOrganism_notraits(org) ==
  [Prototype(org.manager) EXCEPT !.genome = org.genome,
                                 !.inst_ptr = org.inst_ptr,
                                 !.inited = org.inited]

\* OrganismManager::CloneOrganism / FactoryModule::CloneObject:
\* a new organism copy-constructed from org
CloneOrganism(org) ==
  [manager |-> org.manager,
   genome |-> org.genome,
   traits |-> org.traits,
   inst_ptr |-> org.inst_ptr,
   inited |-> org.inited]

\* VirtualCPUOrg::CloneOrganism: the copy, with child_merit set to the
\* manager's initial_merit and the hardware reset
VirtualCPUOrg_CloneOrganism(org) ==
  LET c == CloneOrganism(org)
  IN [c EXCEPT !.traits["child_merit"] = SharedData(org).initial_merit,
               !.inst_ptr = 0]

\* org.CloneOrganism() of a VirtualCPU organism
Clone(o) == VirtualCPUOrg_CloneOrganism(o)

\* Organism::MakeOffspringOrganism: clone, then mutate the clone
Organism_MakeOffspringOrganism(o, draws) ==
  LET offspring == Clone(o)
      m == Mutate(offspring, draws)
  IN [org |-> m.org, used |-> m.used]

\* a variant of MakeOffspringOrganism that leaves the traits of the clone
VirtualCPUOrg_MakeOffspringOrganism_plain(o, draws) ==
  Organism_MakeOffspringOrganism(o, draws)

\* VirtualCPUOrg::MakeOffspringOrganism: the offspring's merit is the
\* parent's child_merit, its child_merit the manager's initial_merit
VirtualCPUOrg_MakeOffspringOrganism(o, draws) ==
  LET r == Organism_MakeOffspringOrganism(o, draws)
  IN [org |-> [r.org EXCEPT
                 !.traits["merit"] = o.traits["child_merit"],
                 !.traits["child_merit"] = SharedData(o).initial_merit],
      used |-> r.used]

\* org.MakeOffspringOrganism(random) of a VirtualCPU organism
MakeOffspringOrganism(o, draws) == VirtualCPUOrg_MakeOffspringOrganism(o, draws)

\* Clone(o) followed by Mutate(rng) on the clone
CloneThenMutate(o, draws) ==
  LET c == Clone(o)
      m == Mutate(c, draws)
  IN [org |-> m.org, used |-> m.used]

\* ------------------------------------------------------------------------
\* Operations on organisms
\* ------------------------------------------------------------------------
\* the genome of the file initial_genome_filename names
AncestorGenome == [k \in 1..N |-> k % 2]

\* org.Randomize(random): every site is drawn anew
VirtualCPUOrg_Randomize(o, draws) ==
  [org |-> [o EXCEPT !.genome = [k \in 1..N |->
                                   IF P(draws[k], 50) THEN 1 ELSE 0]],
   used |-> N]

\* org.Initialize(random): a random genome if init_random is set, else the
\* genome of the file; merit and child_merit are set to the manager's
\* initial_merit
VirtualCPUOrg_Initialize(o, draws) ==
  LET r == IF SharedData(o).init_random
           THEN VirtualCPUOrg_Randomize(o, draws)
           ELSE [org |-> [o EXCEPT !.genome = AncestorGenome], used |-> 0]
  IN [org |-> [r.org EXCEPT !.traits = [t \in TraitNames |->
                                          SharedData(o).initial_merit],
                            !.inited = TRUE],
      used |-> r.used]

\* org.Initialize(control.GetRandom()) on organism i
Initialize(i) ==
  /\ i \in OrgIds
  /\ ~orgs[i].inited
  /\ rng + N <= MaxDraws
  /\ \E r \in {VirtualCPUOrg_Initialize(orgs[i], draws) :
                 draws \in SiteDraws} :
       /\ orgs' = [orgs EXCEPT ![i] = r.org]
       /\ rng' = Advance(rng, r.used)
  /\ last' = NoOp
  /\ UNCHANGED <<data, written, pop>>
  /\ UNCHANGED ctlVars

\* org.SetTrait<double>(t, v)
SetTrait(i, t, v) ==
  /\ i \in OrgIds
  /\ orgs[i].inited
  /\ orgs' = [orgs EXCEPT ![i].traits[t] = v]
  /\ last' = NoOp
  /\ UNCHANGED <<data, rng, written, pop>>
  /\ UNCHANGED ctlVars

\* org.AdvanceIP(1)
AdvanceIP(i) ==
  /\ i \in OrgIds
  /\ orgs[i].inited
  /\ orgs' = [orgs EXCEPT ![i].inst_ptr = (@ + 1) % N]
  /\ last' = NoOp
  /\ UNCHANGED <<data, rng, written, pop>>
  /\ UNCHANGED ctlVars

\* manager.CloneOrganism(org)
DoManagerClone(i) ==
  /\ i \in OrgIds
  /\ orgs[i].inited
  /\ last' = [NoOp EXCEPT !.op = "manager_clone", !.id = i,
                          !.parent = orgs[i],
                          !.child = CloneOrganism(orgs[i])]
  /\ UNCHANGED <<data, orgs, rng, written, pop>>
  /\ UNCHANGED ctlVars

\* child = org.CloneOrganism(); ...; child.Delete()
DoClone(i) ==
  /\ i \in OrgIds
  /\ orgs[i].inited
  /\ last' = [NoOp EXCEPT !.op = "clone", !.id = i, !.parent = orgs[i],
                          !.child = Clone(orgs[i])]
  /\ UNCHANGED <<data, orgs, rng, written, pop>>
  /\ UNCHANGED ctlVars

\* child = org.MakeOffspringOrganism(random); ...; child.Delete()
\* (ref: what Clone followed by Mutate yields from the same stream)
DoMakeOffspring(i) ==
  /\ i \in OrgIds
  /\ orgs[i].inited
  /\ rng + N <= MaxDraws
  /\ \E r \in {[made |-> MakeOffspringOrganism(orgs[i], draws),
               ref |-> CloneThenMutate(orgs[i], draws)] :
                 draws \in SiteDraws} :
       /\ rng' = Advance(rng, r.made.used)
       /\ last' = [NoOp EXCEPT !.op = "offspring", !.id = i,
                               !.parent = orgs[i], !.child = r.made.org,
                               !.used = Advance(rng, r.made.used),
                               !.ref = r.ref.org,
                               !.refUsed = Advance(rng, r.ref.used)]
  /\ UNCHANGED <<data, orgs, written, pop>>
  /\ UNCHANGED ctlVars

\* ------------------------------------------------------------------------
\* Make
\* ------------------------------------------------------------------------
\* FactoryModule::Make(): obj_prototype->Clone()
FactoryModule_MakeClone(m) == CloneOrganism(Prototype(m))

\* FactoryModule::Make(random): obj_prototype->Clone(), then
\* obj_ptr->Initialize(random)
FactoryModule_MakeRandom(m, draws) ==
  VirtualCPUOrg_Initialize(CloneOrganism(Prototype(m)), draws)

\* OrganismManager::MakeOrganism(): prototype->Clone()
OrganismManager_MakeOrganism(m) == CloneOrganism(Prototype(m))

\* OrganismManager::MakeOrganism(random): prototype->Clone(), then
\* org_ptr->Randomize(random)
OrganismManager_MakeOrganismRandom(m, draws) ==
  VirtualCPUOrg_Randomize(CloneOrganism(Prototype(m)), draws)

\* a clone of the prototype on which Randomize(random) is applied
CloneThenRandomize(m, draws) ==
  VirtualCPUOrg_Randomize(CloneOrganism(Prototype(m)), draws)

\* made = manager.Make() or manager.MakeOrganism(); ...; made.Delete()
DoMake(m, op) ==
  /\ last' = [NoOp EXCEPT
                !.op = op, !.parent = Prototype(m),
                !.child = IF op = "Make" THEN FactoryModule_MakeClone(m)
                          ELSE OrganismManager_MakeOrganism(m),
                !.ref = CloneOrganism(Prototype(m))]
  /\ UNCHANGED <<data, orgs, rng, written, pop>>
  /\ UNCHANGED ctlVars

\* made = manager.Make(random) or manager.MakeOrganism(random); ...;
\* made.Delete() (ref: what a clone of the prototype followed by Randomize
\* yields from the same stream)
DoMakeRandom(m, op) ==
  /\ rng + N <= MaxDraws
  /\ \E r \in {[made |-> IF op = "Make(random)"
                         THEN FactoryModule_MakeRandom(m, draws)
                         ELSE OrganismManager_MakeOrganismRandom(m, draws),
               ref |-> CloneThenRandomize(m, draws)] :
                 draws \in SiteDraws} :
       /\ rng' = Advance(rng, r.made.used)
       /\ last' = [NoOp EXCEPT !.op = op, !.parent = Prototype(m),
                               !.child = r.made.org,
                               !.used = Advance(rng, r.made.used),
                               !.ref = r.ref.org,
                               !.refUsed = Advance(rng, r.ref.used)]
  /\ UNCHANGED <<data, orgs, written, pop>>
  /\ UNCHANGED ctlVars

\* ------------------------------------------------------------------------
\* The bit organisms of NK.cc
\* ------------------------------------------------------------------------
\* "Build a random initial population": next_org[j] = random.P(0.5);
\* pop.Inject(next_org)
Inject ==
  /\ Len(pop) < POP_SIZE
  /\ rng + N <= MaxDraws
  /\ \E draws \in SiteDraws :
       pop' = Append(pop, [j \in 1..N |-> IF P(draws[j], 50) THEN 1 ELSE 0])
  /\ rng' = Advance(rng, N)
  /\ last' = NoOp
  /\ UNCHANGED <<data, orgs, written>>
  /\ UNCHANGED ctlVars

\* num_muts = mut_fun(pop[i], random)
ApplyMutFun(i) ==
  /\ i \in 1..Len(pop)
  /\ rng + 2 * MUT_COUNT <= MaxDraws
  /\ \E r \in {mut_fun(pop[i], trials) : trials \in Trials} :
       /\ pop' = [pop EXCEPT ![i] = r.genome]
       /\ last' = [NoOp EXCEPT !.op = "mut_fun", !.id = i,
                               !.parent = [NoOrg EXCEPT !.genome = pop[i]],
                               !.child = [NoOrg EXCEPT !.genome = r.genome],
                               !.ret = r.ret]
  /\ rng' = Advance(rng, 2 * MUT_COUNT)
  /\ UNCHANGED <<data, orgs, written>>
  /\ UNCHANGED ctlVars

\* ------------------------------------------------------------------------
\* The controller: modules, configuration and traits
\* (what the random source yields is an input of the controller's steps;
\* the position of its stream is followed for the organism operations only)
\* ------------------------------------------------------------------------
\* slots the population may grow to
MaxPop == 2
\* slots the population may grow to in the runs that explore Setup
MaxPopSetup == 1
\* generations run in total by the calls of Update
MaxGens == 2

\* EvalNK: `size_t N = 100; size_t K = 2;`
N_default == 100
K_default == 2

\* the module types a run can register, in the order main registers them
ModuleTypes ==
  <<"BitsOrg", "EvalNK", "SelectElite", "AnnotatePlacement_Position">>

Rank(m) == CHOOSE i \in 1..Len(ModuleTypes) : ModuleTypes[i] = m

Registered == {modules[i] : i \in 1..Len(modules)}

\* FactoryModule constructor: SetManageMod()
IsManageMod(m) == m = "BitsOrg"

\* a variant of IsEvaluateMod in which no module is marked as evaluator
IsEvaluateMod_unset(m) == FALSE

\* EvalModule constructor: SetEvaluateMod(true)
IsEvaluateMod(m) == m \in {"EvalNK", "EvalAntagonistic"}

\* the selection modules
IsSelectMod(m) == m = "SelectElite"

\* AnnotatePlacement_Position constructor: SetPlacementMod(true)
IsPlacementMod(m) == m = "AnnotatePlacement_Position"

\* the fields behind the options, with the values they are constructed with
DefaultCfg ==
  [N |-> N_default, K |-> K_default, pop_id |-> 0, pos_trait |-> "org_pos",
   top_k |-> 1, copies_per_winner |-> 1, init_length |-> 0]

\* values a configuration file may give to the options
NValues == {2}
KValues == {0, 1}
InitLengths == {2}
PosTraits == {"org_pos", "fitness"}
TopKs == {1}
Copies == {1, 2}

\* EvalNK::SetupConfig: LinkVar(N, "N"), LinkVar(K, "K")
EvalNK_SetupConfig == {"N", "K"}

\* AnnotatePlacement_Position::SetupConfig: LinkPop(pop_id, "target_pop"),
\* LinkVar(pos_trait, "pos_trait")
AnnotatePlacement_SetupConfig == {"target_pop", "pos_trait"}

\* the options of the elite selection
SelectElite_SetupConfig == {"top_k", "copies_per_winner"}

\* the options of an organism type, declared by the prototype
Prototype_SetupConfig == {"mut_prob", "init_length", "init_random"}

\* FactoryModule::SetupConfig: obj_prototype->SetupConfig()
FactoryModule_SetupConfig == Prototype_SetupConfig

SetupConfig(m) ==
  CASE m = "BitsOrg" -> FactoryModule_SetupConfig
    [] m = "EvalNK" -> EvalNK_SetupConfig
    [] m = "SelectElite" -> SelectElite_SetupConfig
    [] m = "AnnotatePlacement_Position" -> AnnotatePlacement_SetupConfig

\* configuration binding: an option that was linked takes the value of the
\* configuration file, every other field keeps the value it has
BindConfig(c, opts, n, k, pt, tk, cp, len) ==
  [N |-> IF "N" \in opts THEN n ELSE c.N,
   K |-> IF "K" \in opts THEN k ELSE c.K,
   pop_id |-> c.pop_id,
   pos_trait |-> IF "pos_trait" \in opts THEN pt ELSE c.pos_trait,
   top_k |-> IF "top_k" \in opts THEN tk ELSE c.top_k,
   copies_per_winner |-> IF "copies_per_winner" \in opts THEN cp
                         ELSE c.copies_per_winner,
   init_length |-> IF "init_length" \in opts THEN len ELSE c.init_length]

\* a trait declaration of the TraitManager
Decl(name, type, access, m) ==
  [name |-> name, type |-> type, access |-> access, mod |-> m]

\* EvalNK: the members bits_trait and fitness_trait, constructed with the
\* module
EvalNK_Traits ==
  {Decl("bits", "BitVector", "Required", "EvalNK"),
   Decl("fitness", "double", "Owned", "EvalNK")}

\* the elite selection reads the fitness trait
SelectElite_Traits == {Decl("fitness", "double", "Required", "SelectElite")}

\* the traits a module declares when it is constructed
ConstructorTraits(m) ==
  CASE m = "EvalNK" -> EvalNK_Traits
    [] m = "SelectElite" -> SelectElite_Traits
    [] OTHER -> {}

\* a variant of SetupModule that declares the default name
AnnotatePlacement_SetupModule_default(c) ==
  {Decl("org_pos", "OrgPosition", "Owned", "AnnotatePlacement_Position")}

\* AnnotatePlacement_Position::SetupModule:
\* AddOwnedTrait<OrgPosition>(pos_trait, ...)
AnnotatePlacement_SetupModule(c) ==
  {Decl(c.pos_trait, "OrgPosition", "Owned", "AnnotatePlacement_Position")}

\* SetupModule of the prototype of the bit organisms: the organism owns
\* the trait its bit sequence is written to
Prototype_SetupModule == {Decl("bits", "BitVector", "Owned", "BitsOrg")}

\* FactoryModule::SetupModule: obj_prototype->SetupModule()
FactoryModule_SetupModule == Prototype_SetupModule

\* the traits a module declares in SetupModule
SetupModuleTraits(m, c) ==
  CASE m = "BitsOrg" -> FactoryModule_SetupModule
    [] m = "AnnotatePlacement_Position" -> AnnotatePlacement_SetupModule(c)
    [] OTHER -> {}

\* ------------------------------------------------------------------------
\* Trait verification
\* ------------------------------------------------------------------------
DeclaredNames(ts) == {d.name : d \in ts}

Owners(ts, n) == {d \in ts : d.name = n /\ d.access = "Owned"}

Generators(ts, n) == {d \in ts : d.name = n /\ d.access = "Generated"}

Readers(ts, n) == {d \in ts : d.name = n /\ d.access = "Required"}

DuplicateOwner(ts, n) == Cardinality(Owners(ts, n)) > 1

MissingOwner(ts, n) == Owners(ts, n) = {} /\ Generators(ts, n) = {}

TypeConflict(ts, n) ==
  \E d \in ts, e \in ts : d.name = n /\ e.name = n /\ d.type # e.type

\* TraitManager.Verify: each name has exactly one owner (or is Generated)
\* and the declared types of a name unify
Verify(ts) ==
  \A n \in DeclaredNames(ts) :
    /\ ~DuplicateOwner(ts, n)
    /\ ~MissingOwner(ts, n)
    /\ ~TypeConflict(ts, n)

\* the layout Verify emits: the type of every declared name
LayoutOf(ts) ==
  [n \in DeclaredNames(ts) |-> (CHOOSE d \in ts : d.name = n).type]

NoPos == [pop |-> -1, slot |-> 0]

\* the value a trait of a type has in a new DataMap
DefaultValue(type) ==
  CASE type = "BitVector" -> <<>>
    [] type = "double" -> 0
    [] type = "OrgPosition" -> NoPos

\* a DataMap of the layout with every trait at its default
NewDataMap(lay) == [n \in DOMAIN lay |-> DefaultValue(lay[n])]

\* ------------------------------------------------------------------------
\* The NK landscape
\* ------------------------------------------------------------------------
RECURSIVE Pow2(_)
Pow2(k) == IF k <= 0 THEN 1 ELSE 2 * Pow2(k - 1)

NoLandscape == [N |-> 0, K |-> 0, table |-> <<>>]

\* the streams of the random source the tables are drawn from
TableStreams == {0, 1}

\* NKLandscape::Config(N, K, random): an N x 2^(K+1) table, every cell a
\* draw of the stream (a cell holds 0 or 1)
NKLandscape_Config(n, k, s) ==
  [N |-> n, K |-> k,
   table |-> [i \in 0..(n - 1) |->
                [w \in 0..(Pow2(k + 1) - 1) |-> (s + i + w) % 2]]]

\* bit p of a sequence (a position the sequence does not have reads as 0)
BitAt(bits, p) == IF p + 1 \in DOMAIN bits THEN bits[p + 1] ELSE 0

\* w_i: the K+1 bits from position i on, read as a number
RECURSIVE GeneFrom(_, _, _, _)
GeneFrom(l, bits, i, j) ==
  IF j > l.K THEN 0
  ELSE BitAt(bits, (i + j) % l.N) * Pow2(j) + GeneFrom(l, bits, i, j + 1)

\* the sum of table[i][w_i] from position i on
RECURSIVE FitnessFrom(_, _, _)
FitnessFrom(l, bits, i) ==
  IF i >= l.N THEN 0
  ELSE l.table[i][GeneFrom(l, bits, i, 0)] + FitnessFrom(l, bits, i + 1)

\* NKLandscape::GetFitness(bits), times N: the sum over the N positions
NKLandscape_GetFitness(l, bits) == FitnessFrom(l, bits, 0)

\* a variant of SetupModule that builds the landscape of the defaults
EvalNK_SetupModule_defaults(c, s) ==
  NKLandscape_Config(N_default, K_default, s)

\* EvalNK::SetupModule: landscape.Config(N, K, control.GetRandom())
EvalNK_SetupModule(c, s) == NKLandscape_Config(c.N, c.K, s)

\* ------------------------------------------------------------------------
\* Setup
\* ------------------------------------------------------------------------
NoHist ==
  [configured |-> {}, bound |-> FALSE, set_up |-> {}, verified |-> FALSE,
   installed |-> FALSE, size_before |-> 0, births |-> 0, requests |-> 0,
   evaluated |-> {}, selecting |-> FALSE, saw_newborn |-> FALSE,
   late_eval |-> FALSE, returned |-> FALSE]

Idle == [phase |-> "idle", i |-> 0]

\* a slot without organism
Dead ==
  [manager |-> "none", genome |-> <<>>, traits |-> <<>>, inst_ptr |-> 0,
   inited |-> FALSE]

IsAlive(s) == s.manager # "none"

\* FactoryModule constructor: obj_prototype = NewPtr<obj_t>(*this)
NewPrototype ==
  [manager |-> "BitsOrg", genome |-> <<>>, traits |-> <<>>,
   inst_ptr |-> 0, inited |-> FALSE]

\* the step that follows step i of a phase that visits every module
NextModule(phase, i, after) ==
  IF i < Len(modules) THEN [phase |-> phase, i |-> i + 1]
  ELSE [phase |-> after, i |-> 0]

FirstModule(phase, after) ==
  IF Len(modules) > 0 THEN [phase |-> phase, i |-> 1]
  ELSE [phase |-> after, i |-> 0]

\* control.AddPopulation("main_pop", initial_size)
AddPopulation(initial_size) ==
  /\ status = "new"
  /\ status' = "building"
  /\ slots' = [i \in 1..initial_size |-> Dead]
  /\ UNCHANGED <<modules, pc, cfg, linked, traits, layout, landscape, proto,
                 gen, todo, queue, newborns, hist>>
  /\ UNCHANGED orgVars

\* control.AddOrganismType<DirectEncoding<BitVector>>("Bit Orgs"): the
\* manager of the bit organisms is registered as the first module
AddOrganismType ==
  /\ status = "building"
  /\ modules = <<>>
  /\ modules' = <<"BitsOrg">>
  /\ UNCHANGED <<status, pc, cfg, linked, traits, layout, landscape, proto,
                 slots, gen, todo, queue, newborns, hist>>
  /\ UNCHANGED orgVars

\* control.AddModule<M>(...): the module is constructed, and with it the
\* traits that are its members
AddModule(m) ==
  /\ status = "building"
  /\ \A j \in 1..Len(modules) : Rank(modules[j]) < Rank(m)
  /\ modules' = Append(modules, m)
  /\ traits' = traits \cup ConstructorTraits(m)
  /\ UNCHANGED <<status, pc, cfg, linked, layout, landscape, proto, slots,
                 gen, todo, queue, newborns, hist>>
  /\ UNCHANGED orgVars

\* control.Setup() is called, after main has registered its modules
SetupCall(registered) ==
  /\ status = "building"
  /\ registered \subseteq Registered
  /\ status' = "setup"
  /\ pc' = FirstModule("SetupConfig", "Bind")
  /\ UNCHANGED <<modules, cfg, linked, traits, layout, landscape, proto,
                 slots, gen, todo, queue, newborns, hist>>
  /\ UNCHANGED orgVars

\* Setup, phase 1: the next module runs SetupConfig
SetupConfigStep ==
  /\ status = "setup"
  /\ pc.phase = "SetupConfig"
  /\ linked' = linked \cup SetupConfig(modules[pc.i])
  /\ hist' = [hist EXCEPT !.configured = @ \cup {modules[pc.i]}]
  /\ pc' = NextModule("SetupConfig", pc.i, "Bind")
  /\ UNCHANGED <<modules, status, cfg, traits, layout, landscape, proto,
                 slots, gen, todo, queue, newborns>>
  /\ UNCHANGED orgVars

\* Setup, phase 2: the configuration is bound; the configuration file
\* gives K a value of ks, pos_trait one of pts, copies_per_winner one of cps
BindStep(ks, pts, cps) ==
  /\ status = "setup"
  /\ pc.phase = "Bind"
  /\ \E c \in {BindConfig(cfg, linked, n, k, pt, tk, cp, len) :
                 n \in NValues, k \in ks, pt \in pts, tk \in TopKs,
                 cp \in cps, len \in InitLengths} :
       cfg' = c
  /\ hist' = [hist EXCEPT !.bound = TRUE]
  /\ pc' = FirstModule("SetupModule", "Verify")
  /\ UNCHANGED <<modules, status, linked, traits, layout, landscape, proto,
                 slots, gen, todo, queue, newborns>>
  /\ UNCHANGED orgVars

\* Setup, phase 3: the next module runs SetupModule (the random source is
\* at one of the streams)
SetupModuleStep(streams) ==
  /\ status = "setup"
  /\ pc.phase = "SetupModule"
  /\ traits' = traits \cup SetupModuleTraits(modules[pc.i], cfg)
  /\ IF modules[pc.i] = "EvalNK"
     THEN \E s \in streams : landscape' = EvalNK_SetupModule(cfg, s)
     ELSE landscape' = landscape
  /\ hist' = [hist EXCEPT !.set_up = @ \cup {modules[pc.i]}]
  /\ pc' = NextModule("SetupModule", pc.i, "Verify")
  /\ UNCHANGED <<modules, status, cfg, linked, layout, proto, slots, gen,
                 todo, queue, newborns>>
  /\ UNCHANGED orgVars

\* Setup, phase 4: the traits are verified and the layout is locked; a
\* verification error aborts Setup
VerifyStep ==
  /\ status = "setup"
  /\ pc.phase = "Verify"
  /\ IF Verify(traits)
     THEN /\ layout' = LayoutOf(traits)
          /\ hist' = [hist EXCEPT !.verified = TRUE]
          /\ pc' = [phase |-> "Install", i |-> 0]
          /\ status' = status
     ELSE /\ status' = "failed"
          /\ pc' = Idle
          /\ UNCHANGED <<layout, hist>>
  /\ UNCHANGED <<modules, cfg, linked, traits, landscape, proto, slots, gen,
                 todo, queue, newborns>>
  /\ UNCHANGED orgVars

\* FactoryModule::SetupDataMap: obj_prototype->SetDataMap(in_dm)
FactoryModule_SetupDataMap(p, lay) == [p EXCEPT !.traits = NewDataMap(lay)]

\* Setup, phase 5: the layout is installed on the organisms there are:
\* the prototypes of the managers (the populations hold no organism yet)
InstallStep ==
  /\ status = "setup"
  /\ pc.phase = "Install"
  /\ proto' = IF \E i \in 1..Len(modules) : IsManageMod(modules[i])
              THEN FactoryModule_SetupDataMap(proto, layout)
              ELSE proto
  /\ hist' = [hist EXCEPT !.installed = TRUE]
  /\ status' = "ready"
  /\ pc' = Idle
  /\ UNCHANGED <<modules, cfg, linked, traits, layout, landscape, slots, gen,
                 todo, queue, newborns>>
  /\ UNCHANGED orgVars

\* ------------------------------------------------------------------------
\* Populations, evaluation, selection and births
\* ------------------------------------------------------------------------
\* sizes main_pop may be created with
InitialSizes == {0, 1}

MainPop == 0

AliveSlots(sl) == {i \in 1..Len(sl) : IsAlive(sl[i])}

MinOf(S) == CHOOSE i \in S : \A j \in S : i <= j

\* Population::SetAt(i, org): overwrite slot i (or grow by one slot)
SetAt(sl, i, org) ==
  IF i <= Len(sl) THEN [sl EXCEPT ![i] = org] ELSE Append(sl, org)

\* Population::Inject: the first free slot, or a new slot at the end
FirstFree(sl) ==
  LET free == {i \in 1..Len(sl) : ~IsAlive(sl[i])}
  IN IF free = {} THEN Len(sl) + 1 ELSE MinOf(free)

\* FactoryModule::Make(random): obj_prototype->Clone(), then
\* Initialize(random), which draws the genome g
FactoryModule_Make(p, g) ==
  [CloneOrganism(p) EXCEPT !.genome = g, !.inited = TRUE]

\* a variant of OnPlacement that annotates the populations other than the
\* target
AnnotatePlacement_OnPlacement_others(sl, pos, c) ==
  IF pos.pop # c.pop_id
  THEN [sl EXCEPT ![pos.slot].traits[c.pos_trait] = pos]
  ELSE sl

\* AnnotatePlacement_Position::OnPlacement(pos)
AnnotatePlacement_OnPlacement(sl, pos, c) ==
  IF pos.pop = c.pop_id
  THEN [sl EXCEPT ![pos.slot].traits[c.pos_trait] = pos]
  ELSE sl

\* the signal OnPlacement(pos): the handlers of the placement modules
OnPlacement(sl, pos) ==
  IF \E i \in 1..Len(modules) : IsPlacementMod(modules[i])
  THEN AnnotatePlacement_OnPlacement(sl, pos, cfg)
  ELSE sl

\* OnPlacement for the organisms at the slots S, in ascending order
RECURSIVE OnPlacementAll(_, _)
OnPlacementAll(sl, S) ==
  IF S = {} THEN sl
  ELSE OnPlacementAll(OnPlacement(sl, [pop |-> MainPop, slot |-> MinOf(S)]),
                      S \ {MinOf(S)})

\* the elements of a set of slot indices in ascending order
RECURSIVE Ascending(_)
Ascending(S) ==
  IF S = {} THEN <<>> ELSE <<MinOf(S)>> \o Ascending(S \ {MinOf(S)})

\* Collection(pop): every slot of the population
Collection(sl) == 1..Len(sl)

\* control.ToCollection(in): the slots a selector string names
ToCollection(sl, in) == IF in = "main_pop" THEN Collection(sl) ELSE {}

\* orgs.GetAlive(): the alive organisms of a collection, in iteration order
GetAlive(sl, coll) == Ascending(coll \cap AliveSlots(sl))

\* org.GenerateOutput(): the encoding writes its sequence to the trait it
\* owns
GenerateOutput(sl, i, name) == [sl EXCEPT ![i].traits[name] = sl[i].genome]

\* what emp::notify::Error does once the message is out: the handlers let
\* the caller go on, or the program exits
ErrorHandling == {"resume", "exit"}

\* a variant of the loop that takes every fitness as the new maximum
RECURSIVE EvalNK_loop_last(_, _, _, _, _, _, _, _)
EvalNK_loop_last(sl, alive_orgs, l, n, h, max_fitness, max_org, errors) ==
  IF alive_orgs = <<>>
  THEN [slots |-> sl, ret |-> max_fitness, errors |-> errors,
        exited |-> FALSE]
  ELSE LET i == Head(alive_orgs)
           gen_out == GenerateOutput(sl, i, "bits")
           bits == gen_out[i].traits["bits"]
           err == IF Len(bits) # n THEN 1 ELSE 0
           fitness == NKLandscape_GetFitness(l, bits)
           out == [gen_out EXCEPT ![i].traits["fitness"] = fitness]
       IN IF err = 1 /\ h = "exit"
          THEN [slots |-> gen_out, ret |-> max_fitness,
                errors |-> errors + 1, exited |-> TRUE]
          ELSE EvalNK_loop_last(out, Tail(alive_orgs), l, n, h, fitness, i,
                                errors + err)

\* the loop of EvalNK::Evaluate over the alive organisms
RECURSIVE EvalNK_loop(_, _, _, _, _, _, _, _)
EvalNK_loop(sl, alive_orgs, l, n, h, max_fitness, max_org, errors) ==
  IF alive_orgs = <<>>
  THEN [slots |-> sl, ret |-> max_fitness, errors |-> errors,
        exited |-> FALSE]
  ELSE LET i == Head(alive_orgs)
           gen_out == GenerateOutput(sl, i, "bits")
           bits == gen_out[i].traits["bits"]
           err == IF Len(bits) # n THEN 1 ELSE 0
           fitness == NKLandscape_GetFitness(l, bits)
           out == [gen_out EXCEPT ![i].traits["fitness"] = fitness]
       IN IF err = 1 /\ h = "exit"
          THEN [slots |-> gen_out, ret |-> max_fitness,
                errors |-> errors + 1, exited |-> TRUE]
          ELSE IF fitness > max_fitness \/ max_org = 0
          THEN EvalNK_loop(out, Tail(alive_orgs), l, n, h, fitness, i,
                           errors + err)
          ELSE EvalNK_loop(out, Tail(alive_orgs), l, n, h, max_fitness,
                           max_org, errors + err)

\* a variant of Evaluate that walks the whole population
EvalNK_Evaluate_all(sl, coll, l, n, h) ==
  EvalNK_loop(sl, GetAlive(sl, Collection(sl)), l, n, h, 0, 0, 0)

\* EvalNK::Evaluate(orgs) on a collection of slots of the population
EvalNK_Evaluate(sl, coll, l, n, h) ==
  EvalNK_loop(sl, GetAlive(sl, coll), l, n, h, 0, 0, 0)

\* EvalModule::Evaluate(Population &): Evaluate(Collection(pop))
EvalModule_Evaluate_Population(sl, l, n, h) ==
  EvalNK_Evaluate(sl, Collection(sl), l, n, h)

\* EvalModule::Evaluate(const std::string &):
\* Evaluate(control.ToCollection(in))
EvalModule_Evaluate_string(sl, in, l, n, h) ==
  EvalNK_Evaluate(sl, ToCollection(sl, in), l, n, h)

Fitness(sl, i) == sl[i].traits["fitness"]

\* the k best of the candidates, ties broken by ascending slot index
RECURSIVE ElitePicks(_, _, _)
ElitePicks(sl, cand, k) ==
  IF k = 0 \/ cand = {} THEN <<>>
  ELSE LET best == CHOOSE i \in cand : \A j \in cand :
                     \/ Fitness(sl, i) > Fitness(sl, j)
                     \/ Fitness(sl, i) = Fitness(sl, j) /\ i <= j
       IN <<best>> \o ElitePicks(sl, cand \ {best}, k - 1)

RECURSIVE Copied(_, _)
Copied(picks, n) ==
  IF picks = <<>> THEN <<>>
  ELSE [j \in 1..n |-> Head(picks)] \o Copied(Tail(picks), n)

\* SelectElite::SelectParents: copies_per_winner requests for each of the
\* top_k organisms
SelectElite_SelectParents(sl, c) ==
  Copied(ElitePicks(sl, AliveSlots(sl), c.top_k), c.copies_per_winner)

\* the genomes Mutate(rng) can leave, for every genome it can start from
MutateOutcomes ==
  [g \in UNION {GenomesOf(n) : n \in InitLengths} |->
     {mut_fun(g, trials).genome : trials \in TrialsOf(Len(g))}]

\* MakeOffspring of the manager of the bit organisms: Clone(org), then
\* Mutate(rng) on the clone, which leaves the genome mutated
Manager_MakeOffspring(o, mutated) ==
  [CloneOrganism(o) EXCEPT !.genome = mutated]

\* a variant of Place that returns a new slot at the end of the population
Place_grow(sl, parent) == {Len(sl) + 1}

\* the default placement: any slot, alive or dead, of the population of
\* the parent
Place(sl, parent) == 1..Len(sl)

\* pop.Inject(*manager.Make(random)), and OnPlacement for the new organism
\* (the population grows to cap slots at most)
InjectOrg(cap) ==
  /\ status = "ready"
  /\ "BitsOrg" \in Registered
  /\ FirstFree(slots) <= cap
  /\ \E g \in GenomesOf(cfg.init_length) :
       slots' = OnPlacement(SetAt(slots, FirstFree(slots),
                                  FactoryModule_Make(proto, g)),
                            [pop |-> MainPop, slot |-> FirstFree(slots)])
  /\ hist' = [hist EXCEPT !.returned = FALSE]
  /\ UNCHANGED <<modules, status, pc, cfg, linked, traits, layout, landscape,
                 proto, gen, todo, queue, newborns>>
  /\ UNCHANGED orgVars

\* ------------------------------------------------------------------------
\* Update
\* ------------------------------------------------------------------------
\* the first selection module at index i or later (0: there is none)
NextSelector(i) ==
  LET S == {j \in i..Len(modules) : IsSelectMod(modules[j])}
  IN IF S = {} THEN 0 ELSE MinOf(S)

\* the first evaluation module at index i or later (0: there is none)
NextEvaluator(i) ==
  LET S == {j \in i..Len(modules) : IsEvaluateMod(modules[j])}
  IN IF S = {} THEN 0 ELSE MinOf(S)

\* the selection modules run from index i on, then the births
EnterSelect(i) ==
  IF NextSelector(i) # 0
  THEN [phase |-> "Select", i |-> NextSelector(i)]
  ELSE [phase |-> "Birth", i |-> 0]

\* the evaluation modules run from index i on, then the selection modules
EnterEvaluate(i) ==
  IF NextEvaluator(i) # 0
  THEN [phase |-> "Evaluate", i |-> NextEvaluator(i)]
  ELSE EnterSelect(1)

\* control.Update(n) is called
UpdateCall(n) ==
  /\ status = "ready"
  /\ gen + n <= MaxGens
  /\ status' = "updating"
  /\ todo' = n
  /\ pc' = [phase |-> "BeforeUpdate", i |-> 0]
  /\ hist' = [hist EXCEPT !.size_before = Len(slots), !.births = 0,
                          !.requests = 0, !.returned = FALSE]
  /\ UNCHANGED <<modules, cfg, linked, traits, layout, landscape, proto,
                 slots, gen, queue, newborns>>
  /\ UNCHANGED orgVars

\* Update, step 1: BeforeUpdate(generation)
BeforeUpdateStep ==
  /\ status = "updating"
  /\ pc.phase = "BeforeUpdate"
  /\ hist' = [hist EXCEPT !.evaluated = {}, !.selecting = FALSE]
  /\ pc' = EnterEvaluate(1)
  /\ UNCHANGED <<modules, status, cfg, linked, traits, layout, landscape,
                 proto, slots, gen, todo, queue, newborns>>
  /\ UNCHANGED orgVars

\* Update, step 2: the next evaluation module evaluates the alive
\* organisms
EvaluateStep ==
  /\ status = "updating"
  /\ pc.phase = "Evaluate"
  /\ \E h \in ErrorHandling :
       LET r == EvalModule_Evaluate_Population(slots, landscape, cfg.N, h)
       IN /\ slots' = r.slots
          /\ status' = IF r.exited THEN "exited" ELSE status
          /\ pc' = IF r.exited THEN Idle ELSE EnterEvaluate(pc.i + 1)
  /\ hist' = [hist EXCEPT
                !.evaluated = @ \cup {modules[pc.i]},
                !.saw_newborn = @ \/ (newborns \cap AliveSlots(slots) # {}),
                !.late_eval = @ \/ hist.selecting]
  /\ UNCHANGED <<modules, cfg, linked, traits, layout, landscape,
                 proto, gen, todo, queue, newborns>>
  /\ UNCHANGED orgVars

\* Update, step 3: the next selection module enqueues its requests
SelectStep ==
  /\ status = "updating"
  /\ pc.phase = "Select"
  /\ queue' = queue \o SelectElite_SelectParents(slots, cfg)
  /\ hist' = [hist EXCEPT
                !.selecting = TRUE,
                !.requests = @ + Len(SelectElite_SelectParents(slots, cfg))]
  /\ pc' = EnterSelect(pc.i + 1)
  /\ UNCHANGED <<modules, status, cfg, linked, traits, layout, landscape,
                 proto, slots, gen, todo, newborns>>
  /\ UNCHANGED orgVars

\* Update, step 4, for one request: the offspring of the parent is made
\* and placed; the previous occupant of the slot is destroyed
BirthStep ==
  /\ status = "updating"
  /\ pc.phase = "Birth"
  /\ queue # <<>>
  /\ \E g \in MutateOutcomes[slots[Head(queue)].genome],
        at \in Place(slots, Head(queue)) :
       /\ slots' = SetAt(slots, at,
                         Manager_MakeOffspring(slots[Head(queue)], g))
       /\ newborns' = newborns \cup {at}
  /\ queue' = Tail(queue)
  /\ hist' = [hist EXCEPT !.births = @ + 1]
  /\ UNCHANGED <<modules, status, pc, cfg, linked, traits, layout, landscape,
                 proto, gen, todo>>
  /\ UNCHANGED orgVars

\* Update, step 5: OnPlacement(pos) for each new organism
PlacementStep ==
  /\ status = "updating"
  /\ pc.phase = "Birth"
  /\ queue = <<>>
  /\ slots' = OnPlacementAll(slots, newborns)
  /\ pc' = [phase |-> "AfterUpdate", i |-> 0]
  /\ UNCHANGED <<modules, status, cfg, linked, traits, layout, landscape,
                 proto, gen, todo, queue, newborns, hist>>
  /\ UNCHANGED orgVars

\* Update, step 6: AfterUpdate(generation); the next generation starts or
\* Update returns
AfterUpdateStep ==
  /\ status = "updating"
  /\ pc.phase = "AfterUpdate"
  /\ gen' = gen + 1
  /\ todo' = todo - 1
  /\ newborns' = {}
  /\ IF todo > 1
     THEN /\ pc' = [phase |-> "BeforeUpdate", i |-> 0]
          /\ UNCHANGED <<status, hist>>
     ELSE /\ pc' = Idle
          /\ status' = "ready"
          /\ hist' = [hist EXCEPT !.returned = TRUE]
  /\ UNCHANGED <<modules, cfg, linked, traits, layout, landscape, proto,
                 slots, queue>>
  /\ UNCHANGED orgVars

\* ------------------------------------------------------------------------
\* Evaluation modules called on collections
\* ------------------------------------------------------------------------
\* slots of the population the evaluators are called on
MaxEvalPop == 2

\* bit sequences of a length that differs from the N of EvalNK
WrongLengthGenomes == {<<1>>, <<0, 1, 1>>}

\* a variant of Reset that builds the landscape of the defaults
EvalNK_Reset_defaults(c, s) == NKLandscape_Config(N_default, K_default, s)

\* EvalNK::Reset: landscape.Config(N, K, control.GetRandom())
EvalNK_Reset(c, s) == NKLandscape_Config(c.N, c.K, s)

\* what is kept of a call of an evaluation module
Evaluated(op, m, coll, r) ==
  [op |-> op, mod |-> m, coll |-> coll, ret |-> r.ret, errors |-> r.errors,
   exited |-> r.exited]

\* the call returns (or the program exits in it) with the outcome r
Return(op, m, coll, r) ==
  /\ slots' = r.slots
  /\ status' = IF r.exited THEN "exited" ELSE status
  /\ last' = Evaluated(op, m, coll, r)
  /\ UNCHANGED <<modules, pc, cfg, linked, traits, layout, landscape, proto,
                 gen, todo, queue, newborns, hist>>
  /\ UNCHANGED <<data, orgs, rng, pop, written>>

\* the member function EVAL of EvalNK: mod.Evaluate(list)
EVAL(coll) ==
  /\ status = "ready"
  /\ "EvalNK" \in Registered
  /\ \E h \in ErrorHandling :
       Return("EVAL", "EvalNK", coll,
              EvalNK_Evaluate(slots, coll, landscape, cfg.N, h))

\* Evaluate(pop) of EvalNK
EvaluatePopulation ==
  /\ status = "ready"
  /\ "EvalNK" \in Registered
  /\ \E h \in ErrorHandling :
       Return("Evaluate(pop)", "EvalNK", Collection(slots),
              EvalModule_Evaluate_Population(slots, landscape, cfg.N, h))

\* Evaluate(in) of EvalNK with a selector string
EvaluateString(in) ==
  /\ status = "ready"
  /\ "EvalNK" \in Registered
  /\ \E h \in ErrorHandling :
       Return("Evaluate(string)", "EvalNK", ToCollection(slots, in),
              EvalModule_Evaluate_string(slots, in, landscape, cfg.N, h))

\* the member function RESET of EvalNK: mod.Reset()
RESET(streams) ==
  /\ status = "ready"
  /\ "EvalNK" \in Registered
  /\ \E s \in streams : landscape' = EvalNK_Reset(cfg, s)
  /\ last' = [op |-> "RESET", mod |-> "EvalNK", coll |-> {}, ret |-> 0,
              errors |-> 0, exited |-> FALSE]
  /\ UNCHANGED <<modules, status, pc, cfg, linked, traits, layout, proto,
                 slots, gen, todo, queue, newborns, hist>>
  /\ UNCHANGED <<data, orgs, rng, pop, written>>

\* values of the vals trait (doubles whose halves are exact)
Vals == {-2, 0, 2}

\* values of num_vals, the number of values in vals and in scores
ValLengths == {1, 2}

\* emp::Sum(vals)
RECURSIVE Sum(_)
Sum(vals) == IF vals = <<>> THEN 0 ELSE Head(vals) + Sum(Tail(vals))

\* emp::FindMaxIndex(vals): the first position (from 0) of the largest value
FindMaxIndex(vals) ==
  MinOf({i \in 1..Len(vals) : \A j \in 1..Len(vals) : vals[j] <= vals[i]}) - 1

\* a variant of the score in which the active position keeps its value
\* (`if (i == pos) scores[i] = vals[i]`)
Score_active(vals, i, pos) ==
  IF i = pos THEN vals[i + 1]
  ELSE vals[i + 1] - (Sum(vals) \div 2) + (vals[i + 1] \div 2)

\* scores[i] = vals[i] - (emp::Sum(vals) / 2.0) + vals[i]/2, for every i
Score(vals, i, pos) ==
  vals[i + 1] - (Sum(vals) \div 2) + (vals[i + 1] \div 2)

\* the loop over the positions from i on: scores[i] is written and added
\* to total_score
RECURSIVE EvalAntagonistic_scores(_, _, _, _, _)
EvalAntagonistic_scores(vals, scores, total_score, pos, i) ==
  IF i >= Len(vals) THEN [scores |-> scores, total |-> total_score]
  ELSE EvalAntagonistic_scores(vals,
                               [scores EXCEPT ![i + 1] = Score(vals, i, pos)],
                               total_score + Score(vals, i, pos), pos, i + 1)

\* the body of the loop of EvalAntagonistic::Evaluate for one organism
EvalAntagonistic_org(org) ==
  LET vals == org.traits["vals"]
      pos == FindMaxIndex(vals)
      r == EvalAntagonistic_scores(
             vals, [org.traits["scores"] EXCEPT ![pos + 1] = vals[pos + 1]],
             vals[pos + 1], pos, 0)
  IN [org EXCEPT !.traits["scores"] = r.scores,
                 !.traits["total"] = r.total,
                 !.traits["first"] = pos,
                 !.traits["active_count"] = 1]

\* the loop of EvalAntagonistic::Evaluate over the alive organisms
RECURSIVE EvalAntagonistic_loop(_, _, _, _)
EvalAntagonistic_loop(sl, alive_collect, max_total, max_org) ==
  IF alive_collect = <<>>
  THEN [slots |-> sl, ret |-> max_total, errors |-> 0, exited |-> FALSE]
  ELSE LET i == Head(alive_collect)
           gen_out == GenerateOutput(sl, i, "vals")
           out == [gen_out EXCEPT ![i] = EvalAntagonistic_org(gen_out[i])]
           total_score == out[i].traits["total"]
       IN IF total_score > max_total \/ max_org = 0
          THEN EvalAntagonistic_loop(out, Tail(alive_collect), total_score, i)
          ELSE EvalAntagonistic_loop(out, Tail(alive_collect), max_total,
                                     max_org)

\* EvalAntagonistic::Evaluate(orgs)
EvalAntagonistic_Evaluate(sl, coll) ==
  EvalAntagonistic_loop(sl, GetAlive(sl, coll), 0, 0)

\* the member function EVAL of EvalAntagonistic: mod.Evaluate(orgs)
EvalAntagonistic_EVAL(coll) ==
  /\ status = "ready"
  /\ "EvalAntagonistic" \in Registered
  /\ Return("EVAL", "EvalAntagonistic", coll,
            EvalAntagonistic_Evaluate(slots, coll))

\* ------------------------------------------------------------------------
\* Specifications
\* ------------------------------------------------------------------------
\* the controller after `mabe::MABE control;`
InitControl ==
  /\ modules = <<>>
  /\ status = "new"
  /\ pc = Idle
  /\ cfg = DefaultCfg
  /\ linked = {}
  /\ traits = {}
  /\ layout = <<>>
  /\ landscape = NoLandscape
  /\ proto = NewPrototype
  /\ slots = <<>>
  /\ gen = 0
  /\ todo = 0
  /\ queue = <<>>
  /\ newborns = {}
  /\ hist = NoHist

InitOrg ==
  /\ data = [m \in Managers |-> DefaultData]
  /\ orgs = <<>>
  /\ rng = 0
  /\ pop = <<>>
  /\ written = [m \in Managers |-> DefaultData]
  /\ last = NoOp
  /\ InitControl

\* one VirtualCPU organism and everything that can be done with it
NextOrg ==
  \/ \E m \in Managers : Construct(m, 1)
  \/ \E i \in OrgIds : Initialize(i)
  \/ \E i \in OrgIds, t \in TraitNames, v \in Merits : SetTrait(i, t, v)
  \/ \E i \in OrgIds : AdvanceIP(i)
  \/ \E i \in OrgIds, f \in Fields : \E v \in FieldValues(f) : WriteSharedData(i, f, v)
  \/ \E i \in OrgIds : DoManagerClone(i)
  \/ \E i \in OrgIds : DoClone(i)
  \/ \E i \in OrgIds : DoMakeOffspring(i)
  \/ ResetSeed

\* bit organisms, injected and mutated again and again
NextMutate ==
  \/ Inject
  \/ \E i \in 1..Len(pop) : ApplyMutFun(i)
  \/ ResetSeed

\* several organisms on the managers, reading and writing the shared data
NextShared ==
  \/ \E m \in Managers : Construct(m, MaxOrgs)
  \/ \E i \in OrgIds, f \in Fields : \E v \in FieldValues(f) : WriteSharedData(i, f, v)

\* the managers make organisms under any shared configuration
NextMake ==
  \/ \E m \in Managers : Construct(m, 1)
  \/ \E i \in OrgIds, v \in Merits : WriteSharedData(i, "initial_merit", v)
  \/ \E i \in OrgIds, b \in BOOLEAN : WriteSharedData(i, "init_random", b)
  \/ \E m \in Managers, op \in {"Make", "MakeOrganism"} : DoMake(m, op)
  \/ \E m \in Managers, op \in {"Make(random)", "MakeOrganism(random)"} :
       DoMakeRandom(m, op)
  \/ ResetSeed

\* the modules main of NK.cc registers
MainModules == {"BitsOrg", "EvalNK", "SelectElite"}

\* Setup of any set of modules under any configuration, and what follows
NextSetup ==
  \/ AddPopulation(0)
  \/ AddOrganismType
  \/ \E i \in 2..Len(ModuleTypes) : AddModule(ModuleTypes[i])
  \/ SetupCall({})
  \/ SetupConfigStep
  \/ BindStep(KValues, PosTraits, {1})
  \/ SetupModuleStep(TableStreams)
  \/ VerifyStep
  \/ InstallStep
  \/ InjectOrg(MaxPopSetup)
  \/ \E n \in 1..MaxGens : UpdateCall(n)
  \/ BeforeUpdateStep
  \/ EvaluateStep
  \/ SelectStep
  \/ BirthStep
  \/ PlacementStep
  \/ AfterUpdateStep

\* main of NK.cc (with or without the placement annotation): Setup, then
\* injections and calls of Update
NextUpdate ==
  \/ \E sz \in InitialSizes : AddPopulation(sz)
  \/ AddOrganismType
  \/ \E i \in 2..Len(ModuleTypes) : AddModule(ModuleTypes[i])
  \/ SetupCall(MainModules)
  \/ SetupConfigStep
  \/ BindStep({1}, {"org_pos"}, Copies)
  \/ SetupModuleStep({0})
  \/ VerifyStep
  \/ InstallStep
  \/ InjectOrg(MaxPop)
  \/ \E n \in 1..MaxGens : UpdateCall(n)
  \/ BeforeUpdateStep
  \/ EvaluateStep
  \/ SelectStep
  \/ BirthStep
  \/ PlacementStep
  \/ AfterUpdateStep

\* the populations of at most MaxEvalPop slots, each dead or an organism
\* of those given
Populations(organisms) ==
  UNION {[1..n -> {Dead} \cup organisms] : n \in 0..MaxEvalPop}

\* what Setup has done when it returns
SetupDone(ms) ==
  [NoHist EXCEPT !.configured = ms, !.bound = TRUE, !.set_up = ms,
                 !.verified = TRUE, !.installed = TRUE]

\* the traits of the run of a bit organism type and EvalNK
NKTraits ==
  ConstructorTraits("EvalNK") \cup SetupModuleTraits("BitsOrg", DefaultCfg)

\* bit organisms as Make(random) gives them, with one of the genomes
BitOrgs(genomes) ==
  {FactoryModule_Make(
     FactoryModule_SetupDataMap(NewPrototype, LayoutOf(NKTraits)), g) :
       g \in genomes}

\* a run with a bit organism type and EvalNK after Setup and injections
InitNK ==
  /\ modules = <<"BitsOrg", "EvalNK">>
  /\ linked = SetupConfig("BitsOrg") \cup SetupConfig("EvalNK")
  /\ \E n \in NValues, k \in KValues, len \in InitLengths :
       cfg = BindConfig(DefaultCfg, linked, n, k, "org_pos", 1, 1, len)
  /\ traits = NKTraits
  /\ layout = LayoutOf(traits)
  /\ landscape = EvalNK_SetupModule(cfg, 1)
  /\ proto = FactoryModule_SetupDataMap(NewPrototype, layout)
  /\ slots \in Populations(BitOrgs(UNION {GenomesOf(n) : n \in NValues}
                                   \cup WrongLengthGenomes))
  /\ hist = SetupDone({"BitsOrg", "EvalNK"})

\* EvalAntagonistic: the members vals_trait, scores_trait, total_trait,
\* first_trait and active_count_trait
EvalAntagonistic_Traits ==
  {Decl("vals", "doubles", "Required", "EvalAntagonistic"),
   Decl("scores", "doubles", "Owned", "EvalAntagonistic"),
   Decl("total", "double", "Owned", "EvalAntagonistic"),
   Decl("first", "size_t", "Owned", "EvalAntagonistic"),
   Decl("active_count", "size_t", "Owned", "EvalAntagonistic")}

\* the organism type of the value sequences owns the trait vals
ValsOrg_Traits == {Decl("vals", "doubles", "Owned", "ValsOrg")}

\* a new DataMap of the layout of these traits, vals and scores holding
\* num_vals values
AntagonisticDataMap(num_vals) ==
  [vals |-> [i \in 1..num_vals |-> 0], scores |-> [i \in 1..num_vals |-> 0],
   total |-> 0, first |-> 0, active_count |-> 0]

\* the prototype of the organisms that hold num_vals values
ValsPrototype(num_vals) ==
  [manager |-> "ValsOrg", genome |-> <<>>,
   traits |-> AntagonisticDataMap(num_vals), inst_ptr |-> 0,
   inited |-> FALSE]

\* these organisms as Make(random) gives them
ValsOrgs(num_vals) ==
  {FactoryModule_Make(ValsPrototype(num_vals), g) :
     g \in [1..num_vals -> Vals]}

\* EvalAntagonistic::SetupConfig: LinkVar(num_vals, "N", ...)
EvalAntagonistic_SetupConfig == {"N"}

\* a run with organisms of value sequences and EvalAntagonistic after
\* Setup and injections
InitAntagonistic ==
  /\ modules = <<"ValsOrg", "EvalAntagonistic">>
  /\ linked = EvalAntagonistic_SetupConfig
  /\ \E num_vals \in ValLengths :
       cfg = BindConfig(DefaultCfg, linked, num_vals, K_default, "org_pos",
                        1, 1, num_vals)
  /\ traits = EvalAntagonistic_Traits \cup ValsOrg_Traits
  /\ layout = LayoutOf(traits)
  /\ landscape = NoLandscape
  /\ proto = ValsPrototype(cfg.N)
  /\ slots \in Populations(ValsOrgs(cfg.N))
  /\ hist = SetupDone({"ValsOrg", "EvalAntagonistic"})

InitEval ==
  /\ data = [m \in Managers |-> DefaultData]
  /\ orgs = <<>>
  /\ rng = 0
  /\ pop = <<>>
  /\ written = [m \in Managers |-> DefaultData]
  /\ last = NoOp
  /\ status = "ready"
  /\ pc = Idle
  /\ gen = 0
  /\ todo = 0
  /\ queue = <<>>
  /\ newborns = {}
  /\ (InitNK \/ InitAntagonistic)

\* calls of the evaluation modules from the script, on any collection
NextEval ==
  \/ \E coll \in SUBSET Collection(slots) : EVAL(coll)
  \/ EvaluatePopulation
  \/ \E in \in {"main_pop", "none"} : EvaluateString(in)
  \/ \E coll \in SUBSET Collection(slots) : EvalAntagonistic_EVAL(coll)

\* values of K a configuration file gives: one below N, and N itself
ScriptKs == {1, 2}

\* main of NK.cc under a script that also calls EVAL and RESET between the
\* calls of Update
NextScript ==
  \/ AddPopulation(0)
  \/ AddOrganismType
  \/ \E i \in 2..Len(ModuleTypes) : AddModule(ModuleTypes[i])
  \/ SetupCall(MainModules)
  \/ SetupConfigStep
  \/ BindStep(ScriptKs, {"org_pos"}, {1})
  \/ SetupModuleStep({0})
  \/ VerifyStep
  \/ InstallStep
  \/ InjectOrg(MaxPopSetup)
  \/ \E n \in 1..MaxGens : UpdateCall(n)
  \/ BeforeUpdateStep
  \/ EvaluateStep
  \/ SelectStep
  \/ BirthStep
  \/ PlacementStep
  \/ AfterUpdateStep
  \/ \E coll \in SUBSET Collection(slots) : EVAL(coll)
  \/ RESET(TableStreams)

vars == <<orgVars, ctlVars>>

Init == InitOrg

Next == NextOrg

Spec == Init /\ [][Next]_vars

SpecShared == InitOrg /\ [][NextShared]_vars

SpecMutate == InitOrg /\ [][NextMutate]_vars

SpecSetup == InitOrg /\ [][NextSetup]_vars

SpecUpdate == InitOrg /\ [][NextUpdate]_vars

SpecMake == InitOrg /\ [][NextMake]_vars

SpecEval == InitEval /\ [][NextEval]_vars

SpecScript == InitOrg /\ [][NextScript]_vars

\* ------------------------------------------------------------------------
\* C1: every organism of a manager reads, for every field of SharedData(),
\* the value last written to it through any organism of the same manager
\* (the default when none was); a write through an organism of another
\* manager does not change what it reads.
\* ------------------------------------------------------------------------
C1_SharedDataIsShared ==
  /\ \A i \in OrgIds : \A f \in Fields :
       SharedData(orgs[i])[f] = written[orgs[i].manager][f]
  /\ last.op = "write" =>
       \A j \in OrgIds :
         orgs[j].manager = orgs[last.id].manager =>
           SharedData(orgs[j]) = SharedData(orgs[last.id])

C1_Witness ==
  \E a, b, c \in OrgIds :
    /\ a # b
    /\ orgs[a].manager = orgs[b].manager
    /\ orgs[c].manager # orgs[a].manager
    /\ last.op = "write" /\ last.id = a
    /\ SharedData(orgs[b]).initial_merit = 2
    /\ SharedData(orgs[b]).mut_prob = 100
    /\ SharedData(orgs[c]) = DefaultData

\* ------------------------------------------------------------------------
\* C2: the value Mutate returns is the number of positions at which the
\* genome after the call differs from the genome before the call, for the
\* bit-sequence Mutate (mut_fun) and every outcome of its trials.
\* ------------------------------------------------------------------------
C2_MutateReturnsDiffCount ==
  last.op = "mut_fun" =>
    last.ret = DiffCount(last.parent.genome, last.child.genome)

C6_VirtualCPUOffspring ==
  last.op = "offspring" =>
    /\ last.child.traits["merit"] = last.parent.traits["child_merit"]
    /\ last.child.traits["child_merit"] = data[last.parent.manager].initial_merit
    /\ last.child.inst_ptr = 0
    /\ data[last.parent.manager].mut_prob = 0 =>
         last.child.genome = last.parent.genome
    /\ orgs[last.id] = last.parent

C6_Witness ==
  /\ last.op = "offspring"
  /\ last.parent.inited
  /\ data[last.parent.manager].mut_prob = 0
  /\ data[last.parent.manager].initial_merit = 0
  /\ last.parent.genome[1] = 1
  /\ last.parent.traits["merit"] = 2
  /\ last.parent.traits["child_merit"] = 1
  /\ last.parent.inst_ptr = 1
  /\ last.child.genome = last.parent.genome

\* ------------------------------------------------------------------------
\* Setup and Update of the controller
\* ------------------------------------------------------------------------
SetupSucceeded == status \in {"ready", "updating"}

WellOwned(ts, n) == Cardinality(Owners(ts, n)) = 1 \/ Generators(ts, n) # {}

\* C7: Setup does not succeed when a trait name is declared Owned by two
\* modules or Required without an Owned or Generated declarer, whether the
\* name is fixed or chosen by configuration (pos_trait); after a failed
\* Setup no generation runs; after a successful Setup every declared name,
\* the configured pos_trait included, has exactly one owner or is Generated.
C7_TraitVerification ==
  /\ SetupSucceeded =>
       \A n \in DeclaredNames(traits) :
         /\ ~DuplicateOwner(traits, n)
         /\ ~(Readers(traits, n) # {} /\ MissingOwner(traits, n))
         /\ WellOwned(traits, n)
  /\ SetupSucceeded /\ "AnnotatePlacement_Position" \in Registered =>
       /\ cfg.pos_trait \in DeclaredNames(traits)
       /\ \A d \in Owners(traits, cfg.pos_trait) :
            d.mod = "AnnotatePlacement_Position"
  /\ status = "failed" =>
       /\ gen = 0 /\ todo = 0 /\ queue = <<>>
       /\ hist.evaluated = {} /\ ~hist.selecting /\ hist.births = 0
       /\ \E n \in DeclaredNames(traits) :
            DuplicateOwner(traits, n) \/ MissingOwner(traits, n)
              \/ TypeConflict(traits, n)

\* Setup failed because the configured pos_trait names a trait that
\* EvalNK owns
C7_Witness ==
  /\ status = "failed"
  /\ cfg.pos_trait = "fitness"
  /\ DuplicateOwner(traits, "fitness")
  /\ "EvalNK" \in Registered

\* C8: in Setup, SetupModule of a module runs only after SetupConfig of
\* every module (the factory module's through its prototype) and the
\* binding of the configuration; verification follows SetupModule of every
\* module, installation of the layout follows verification; EvalNK's
\* landscape is built with the bound values of N and K.
C8_SetupOrder ==
  /\ hist.bound => hist.configured = Registered
  /\ hist.set_up # {} => hist.configured = Registered /\ hist.bound
  /\ hist.verified => hist.set_up = Registered
  /\ hist.installed => hist.verified
  /\ DOMAIN layout # {} => hist.verified
  /\ DOMAIN proto.traits # {} => hist.verified
  /\ SetupSucceeded => hist.installed
  /\ "BitsOrg" \in hist.configured => Prototype_SetupConfig \subseteq linked
  /\ "EvalNK" \in hist.configured => EvalNK_SetupConfig \subseteq linked
  /\ landscape # NoLandscape => hist.bound
  /\ "EvalNK" \in hist.set_up =>
       /\ landscape # NoLandscape
       /\ landscape.N = cfg.N /\ landscape.K = cfg.K
       /\ cfg.N \in NValues /\ cfg.K \in KValues

\* Setup is complete and EvalNK has built a landscape whose N and K are
\* not the defaults
C8_Witness ==
  /\ status = "ready"
  /\ hist.installed
  /\ "EvalNK" \in hist.set_up
  /\ "BitsOrg" \in hist.set_up
  /\ landscape.N # N_default /\ landscape.K # K_default
  /\ DOMAIN proto.traits = {"bits", "fitness"}

\* the registered modules that derive from EvalModule
Evaluators == Registered \cap {"EvalNK", "EvalAntagonistic"}

\* C9: in a generation no evaluation module runs once a selection module
\* has started, a selection module starts only when every evaluation
\* module has evaluated in this generation, and no organism born in the
\* running generation is among the organisms an evaluator is given.
C9_EvaluateBeforeSelect ==
  /\ ~hist.late_eval
  /\ hist.selecting => Evaluators \subseteq hist.evaluated
  /\ pc.phase = "Select" => Evaluators \subseteq hist.evaluated
  /\ queue # <<>> => Evaluators \subseteq hist.evaluated
  /\ ~hist.saw_newborn
  /\ pc.phase \in {"BeforeUpdate", "Evaluate", "Select"} => newborns = {}

\* the second generation of an Update has evaluated, before selecting,
\* a population that holds offspring of the first generation
C9_Witness ==
  /\ status = "updating"
  /\ gen >= 1
  /\ hist.births > 0
  /\ pc.phase = "Select"
  /\ ~hist.selecting
  /\ "EvalNK" \in hist.evaluated

\* C10: while Update runs and when it has returned the population has the
\* size it had when Update was called, and when it has returned the number
\* of births of the call equals the number of requests the selection
\* modules enqueued during the call.
C10_UpdateKeepsSizes ==
  /\ status = "updating" \/ hist.returned =>
       /\ Len(slots) = hist.size_before
       /\ hist.births <= hist.requests
       /\ hist.births + Len(queue) = hist.requests
  /\ hist.returned => hist.births = hist.requests /\ queue = <<>>

\* Update has returned from its last generation after more than one birth;
\* the population is full and every slot holds an organism
C10_Witness ==
  /\ hist.returned
  /\ hist.births > 1
  /\ Len(slots) = MaxPop
  /\ AliveSlots(slots) = 1..Len(slots)
  /\ gen = MaxGens

\* ------------------------------------------------------------------------
\* Evaluation on collections
\* ------------------------------------------------------------------------
\* the ways of calling Evaluate of an evaluation module
EvaluateOps == {"EVAL", "Evaluate(pop)", "Evaluate(string)"}

\* the call the record l describes is an Evaluate of module m that returned
ReturnedFrom(l, m) == l.op \in EvaluateOps /\ l.mod = m /\ ~l.exited

\* the largest element of a set of numbers
MaxOf(S) == CHOOSE x \in S : \A y \in S : y <= x

\* C11: an Evaluate of EvalNK that returns gives the maximum of the
\* fitness values it wrote to the alive organisms of the collection; when
\* the collection has no alive organism it returns 0, leaves every trait
\* as it was and reports no error.
C11_EvaluateReturnsMax ==
  [][ReturnedFrom(last', "EvalNK") =>
        LET alive == last'.coll \cap AliveSlots(slots)
        IN /\ alive # {} =>
                last'.ret = MaxOf({slots'[i].traits["fitness"] : i \in alive})
           /\ alive = {} =>
                last'.ret = 0 /\ slots' = slots /\ last'.errors = 0]_vars

\* an Evaluate on two alive organisms has returned the fitness of one,
\* which is larger than the fitness it wrote to the other
C11_Witness ==
  /\ ReturnedFrom(last, "EvalNK")
  /\ Cardinality(last.coll \cap AliveSlots(slots)) >= 2
  /\ last.ret > 0
  /\ \E i \in last.coll \cap AliveSlots(slots) :
       slots[i].traits["fitness"] = last.ret
  /\ \E i \in last.coll \cap AliveSlots(slots) :
       slots[i].traits["fitness"] < last.ret

\* the alive organisms of a collection whose bit sequence has not the N
\* bits EvalNK needs
WrongLength(sl, coll) ==
  {i \in coll \cap AliveSlots(sl) : Len(sl[i].genome) # cfg.N}

\* C12: an Evaluate of EvalNK reports an error for every alive organism of
\* the collection whose bit sequence has a length other than N and skips
\* it: its fitness trait is not written and it does not count for the
\* maximum; every other alive organism of the collection is evaluated and
\* the call returns.
C12_WrongLengthIsSkipped ==
  [][last'.op \in EvaluateOps /\ last'.mod = "EvalNK" =>
       LET wrong == WrongLength(slots, last'.coll)
           right == (last'.coll \cap AliveSlots(slots)) \ wrong
       IN /\ ~last'.exited
          /\ last'.errors = Cardinality(wrong)
          /\ \A i \in wrong :
               slots'[i].traits["fitness"] = slots[i].traits["fitness"]
          /\ \A i \in right :
               slots'[i].traits["fitness"] =
                 NKLandscape_GetFitness(landscape, slots[i].genome)
          /\ last'.ret =
               IF right = {} THEN 0
               ELSE MaxOf({slots'[i].traits["fitness"] : i \in right})]_vars

\* ------------------------------------------------------------------------
\* The NK table
\* ------------------------------------------------------------------------
\* C13 as stated: once SetupModule has built the table, no step of the run
\* changes a cell of it.
C13_TableNeverChanges ==
  [][landscape # NoLandscape => landscape'.table = landscape.table]_vars

\* C13: once SetupModule has built the table, a step that changes it is a
\* call of RESET, which builds a table of N rows and 2^(K+1) columns for
\* the N and K of the configuration; no Evaluate, EVAL or Update step
\* changes a cell.
C13_TableChangesOnReset ==
  [][landscape # NoLandscape /\ landscape' # landscape =>
       /\ RESET(TableStreams)
       /\ landscape'.N = cfg.N /\ landscape'.K = cfg.K
       /\ DOMAIN landscape'.table = 0..(cfg.N - 1)
       /\ \A i \in DOMAIN landscape'.table :
            DOMAIN landscape'.table[i] = 0..(Pow2(cfg.K + 1) - 1)]_vars

\* RESET has been called after a generation, and an organism holds a
\* fitness that the table no longer gives its bit sequence
C13_Witness ==
  /\ last.op = "RESET"
  /\ gen >= 1
  /\ landscape # NoLandscape
  /\ \E i \in AliveSlots(slots) :
       /\ slots[i].traits["bits"] = slots[i].genome
       /\ slots[i].traits["fitness"] #
            NKLandscape_GetFitness(landscape, slots[i].genome)

\* C14: when the configuration gives EvalNK a K that is not below N, Setup
\* fails: the run never gets ready, no Update step executes and no
\* evaluation uses the landscape.
C14_InvalidKFailsSetup ==
  hist.bound /\ "EvalNK" \in Registered /\ cfg.K >= cfg.N =>
    /\ status \in {"setup", "failed"}
    /\ gen = 0
    /\ hist.evaluated = {}
    /\ \A i \in AliveSlots(slots) : slots[i].traits["fitness"] = 0

\* ------------------------------------------------------------------------
\* Placement annotation
\* ------------------------------------------------------------------------
\* the slots filled by a birth whose OnPlacement has not fired yet
PendingPlacements == IF pc.phase = "Birth" THEN newborns ELSE {}

\* C15: with AnnotatePlacement_Position on the population, every alive
\* organism whose OnPlacement has fired (after an injection, and after the
\* births of a generation, also of offspring cloned from an annotated
\* parent) holds in its position trait the population and the slot it is
\* in.
C15_PositionAnnotated ==
  SetupSucceeded /\ "AnnotatePlacement_Position" \in Registered
    /\ cfg.pop_id = MainPop =>
      \A i \in AliveSlots(slots) \ PendingPlacements :
        slots[i].traits[cfg.pos_trait] = [pop |-> MainPop, slot |-> i]

\* Update has returned after two births into a population of two annotated
\* organisms
C15_Witness ==
  /\ "AnnotatePlacement_Position" \in Registered
  /\ hist.returned
  /\ hist.births >= 2
  /\ Len(slots) = 2
  /\ \A i \in 1..2 :
       /\ IsAlive(slots[i])
       /\ slots[i].traits[cfg.pos_trait] = [pop |-> MainPop, slot |-> i]

\* ------------------------------------------------------------------------
\* Make
\* ------------------------------------------------------------------------
\* C16: Make() and MakeOrganism() return a clone of the prototype;
\* Make(random) and MakeOrganism(random) return what a clone of the
\* prototype becomes under Randomize(random) (the same genome, the same
\* traits, the same draws taken from the random source), whatever the
\* shared data of the manager holds.
C16_MakeIsCloneThenRandomize ==
  /\ last.op \in {"Make", "MakeOrganism"} =>
       last.child = CloneOrganism(last.parent)
  /\ last.op \in {"Make(random)", "MakeOrganism(random)"} =>
       /\ last.child.genome = last.ref.genome
       /\ last.child.traits = last.ref.traits
       /\ last.child.manager = last.ref.manager
       /\ last.used = last.refUsed

\* ------------------------------------------------------------------------
\* EvalAntagonistic
\* ------------------------------------------------------------------------
\* the alive organisms of the collection of the call the record l describes
EvaluatedSlots(l) == l.coll \cap AliveSlots(slots)

\* C17: after an Evaluate of EvalAntagonistic, total is the sum of the
\* entries of scores for every alive organism of the collection, and the
\* value returned is the largest total.
C17_TotalIsSumOfScores ==
  ReturnedFrom(last, "EvalAntagonistic") =>
    /\ \A i \in EvaluatedSlots(last) :
         slots[i].traits["total"] = Sum(slots[i].traits["scores"])
    /\ EvaluatedSlots(last) # {} =>
         last.ret = MaxOf({slots[i].traits["total"] :
                            i \in EvaluatedSlots(last)})

OwnedBy(m) == {d.name : d \in {e \in traits : e.mod = m /\ e.access = "Owned"}}

\* C19 as stated: an Evaluate call changes nothing but traits the module
\* owns, on alive organisms of the collection.
C19_EvaluateWritesOwnedOnly ==
  [][last'.op \in EvaluateOps =>
       /\ Len(slots') = Len(slots)
       /\ \A i \in 1..Len(slots) :
            /\ slots'[i].manager = slots[i].manager
            /\ slots'[i].genome = slots[i].genome
            /\ i \notin last'.coll \cap AliveSlots(slots) =>
                 slots'[i] = slots[i]
            /\ DOMAIN slots'[i].traits = DOMAIN slots[i].traits
            /\ \A t \in DOMAIN slots[i].traits \ OwnedBy(last'.mod) :
                 slots'[i].traits[t] = slots[i].traits[t]]_vars

\* C19: an Evaluate call changes nothing but traits the module owns and
\* the output trait the type of the organism owns, which GenerateOutput
\* sets to the sequence of the organism, on alive organisms of the
\* collection; dead slots, organisms outside the collection, the genomes
\* and the size and occupancy of the population stay as they are.
C19_EvaluateFrame ==
  [][last'.op \in EvaluateOps =>
       /\ Len(slots') = Len(slots)
       /\ \A i \in 1..Len(slots) :
            /\ slots'[i].manager = slots[i].manager
            /\ slots'[i].genome = slots[i].genome
            /\ i \notin last'.coll \cap AliveSlots(slots) =>
                 slots'[i] = slots[i]
            /\ DOMAIN slots'[i].traits = DOMAIN slots[i].traits
            /\ \A t \in DOMAIN slots[i].traits \ OwnedBy(last'.mod) :
                 \/ slots'[i].traits[t] = slots[i].traits[t]
                 \/ /\ t \in OwnedBy(slots[i].manager)
                    /\ slots'[i].traits[t] = slots[i].genome]_vars

\* an EVAL on the first of two alive organisms has returned: the first
\* holds its output and a fitness, the second is as Make left it
C19_Witness ==
  /\ ReturnedFrom(last, "EvalNK")
  /\ last.coll = {1}
  /\ AliveSlots(slots) = {1, 2}
  /\ slots[1].traits["bits"] = slots[1].genome
  /\ slots[1].traits["fitness"] > 0
  /\ slots[2].traits = NewDataMap(layout)

====
